---- MODULE Spec2Model ----
(***************************************************************************)
(* Model of src/app.py, the Comodofi demo: a Streamlit script that is      *)
(* re-executed from the top on every user interaction.  The state that     *)
(* survives between executions is st.session_state (balances, positions,   *)
(* log), the selected index, and the st.cache_data cache of load_series.   *)
(* The order widgets (side, notional, leverage) are inputs of the Open     *)
(* handler.  The environment is the CSV files/URLs behind the indices and  *)
(* the clock read by datetime.utcnow().                                    *)
(*                                                                         *)
(* Spec takes each execution as one step and follows a session over many   *)
(* interactions.  RunSpec follows a single execution statement by          *)
(* statement (sidebar, load, funding estimate, order estimate, Open        *)
(* handler) over a wider choice of series and order inputs.                *)
(*                                                                         *)
(* Python floats are modelled as binary floating-point numbers with         *)
(* round-to-nearest-even, at a reduced number of significant bits.         *)
(* Division of a float by zero raises ZeroDivisionError.                   *)
(***************************************************************************)
EXTENDS Integers, Sequences, FiniteSets, TLC

VARIABLES
    balances,   \* st.session_state.balances["USD"]
    positions,  \* st.session_state.positions
    log,        \* st.session_state.log
    symbol,     \* value of the "Index" selectbox
    cache,      \* st.cache_data entries of load_series, per index
    files,      \* environment: what pd.read_csv finds behind each index
    now,        \* environment: the clock datetime.utcnow() reads
    page,       \* what the last execution of the script produced
    script      \* the locals of an execution followed statement by statement

vars == <<balances, positions, log, symbol, cache, files, now, page, script>>

----------------------------------------------------------------------------
(* Bounds of the model *)

\* the clock stops the model after this many reads of datetime.utcnow()
MaxTime == 5

\* significant bits of the model's floats
MantissaBits == 12

\* the longest series a followed execution loads
MaxLen == 3

----------------------------------------------------------------------------
(* Float arithmetic.  A float is modelled by the rational it denotes, a
   record [n, d] with d > 0 and gcd(n, d) = 1; every operation computes the
   exact result and rounds it to the nearest float (ties to even), as IEEE 754
   does.  The model's floats carry MantissaBits significant bits where
   Python's carry 53, and have no exponent limits. *)

Abs(x) == IF x < 0 THEN -x ELSE x

RECURSIVE GCD(_, _)
GCD(a, b) == IF b = 0 THEN a ELSE GCD(b, a % b)

Rat(n, d) ==
    LET s == IF d < 0 THEN -1 ELSE 1
        g == GCD(Abs(n), Abs(d))
    IN  [n |-> (s * n) \div g, d |-> (s * d) \div g]

Zero == [n |-> 0, d |-> 1]

\* the exact results
RatAdd(a, b) == Rat(a.n * b.d + b.n * a.d, a.d * b.d)

RatSub(a, b) == Rat(a.n * b.d - b.n * a.d, a.d * b.d)

RatMul(a, b) == Rat(a.n * b.n, a.d * b.d)

RatDiv(a, b) == Rat(a.n * b.d, a.d * b.n)

RatLt(a, b) == a.n * b.d < b.n * a.d

RatLe(a, b) == a.n * b.d <= b.n * a.d

RatAbs(a) == [n |-> Abs(a.n), d |-> a.d]

RECURSIVE Pow2(_)
Pow2(k) == IF k = 0 THEN 1 ELSE 2 * Pow2(k - 1)

\* mantissas m satisfy MantissaLow <= m < MantissaHigh
MantissaHigh == Pow2(MantissaBits)

MantissaLow == Pow2(MantissaBits - 1)

\* a / d = (a2 / d2) * 2^e with MantissaLow <= a2 / d2 < MantissaHigh
RECURSIVE Scale(_, _, _)
Scale(a, d, e) ==
    IF a \div d >= MantissaHigh
    THEN IF a % 2 = 0 THEN Scale(a \div 2, d, e + 1) ELSE Scale(a, 2 * d, e + 1)
    ELSE IF a \div d < MantissaLow
    THEN IF d % 2 = 0 THEN Scale(a, d \div 2, e - 1) ELSE Scale(2 * a, d, e - 1)
    ELSE [a |-> a, d |-> d, e |-> e]

\* a / d rounded to the nearest integer, ties to even
RoundHalfEven(a, d) ==
    LET q == a \div d
        r == a % d
    IN  IF 2 * r > d \/ (2 * r = d /\ q % 2 = 1) THEN q + 1 ELSE q

\* the float nearest to the rational x (an integer below 2^MantissaBits is
\* a float)
fl(x) ==
    IF x.d = 1 /\ Abs(x.n) < MantissaHigh THEN x
    ELSE LET sc == Scale(Abs(x.n), x.d, 0)
             m == RoundHalfEven(sc.a, sc.d) * (IF x.n < 0 THEN -1 ELSE 1)
         IN  IF sc.e >= 0 THEN Rat(m * Pow2(sc.e), 1) ELSE Rat(m, Pow2(-sc.e))

\* float(i) of an integer i
float(i) == fl([n |-> i, d |-> 1])

\* +, -, *, / on floats (Python raises ZeroDivisionError for b = 0 in a / b)
FAdd(a, b) == fl(RatAdd(a, b))

FSub(a, b) == fl(RatSub(a, b))

FMul(a, b) == fl(RatMul(a, b))

FDiv(a, b) == fl(RatDiv(a, b))

----------------------------------------------------------------------------
(* Program constants and widget ranges *)

StartBalance == 10000

MinLeverage == 1

MaxLeverage == 20

MinNotional == 10

TAKER_FEE_BPS == 5

Sides == {"LONG", "SHORT"}

\* st.slider("Leverage", 1, 20, 5): the model keeps it at the upper end
Leverages == {l \in {MaxLeverage} : MinLeverage <= l}

\* st.number_input(min_value=10.0), no maximum: the model types the minimum
\* and the whole starting balance
Notionals == {float(MinNotional), float(StartBalance)}

----------------------------------------------------------------------------
(* The index registry and the CSV data behind it *)

\* INDEX_MAP: one URL index and one local CSV index
INDEX_MAP ==
    [s \in {"A", "B"} |->
        IF s = "A"
        THEN [symbol |-> "A", source |-> [type |-> "url_csv", url |-> "http://a"]]
        ELSE [symbol |-> "B", source |-> [type |-> "csv", path |-> "b.csv"]]]

symbols == DOMAIN INDEX_MAP

Row(t, v) == [time |-> t, value |-> v]

\* contents pd.read_csv can find behind each index; rows are in file order,
\* which need not be time order
CsvChoices(s) ==
    IF s = "A"
    THEN { <<Row(2, 4), Row(3, 3), Row(1, 5)>>,      \* last point in time: 3
           <<Row(1, 5), Row(2, 3), Row(3, 4)>>,      \* last point in time: 4
           <<Row(1, 3), Row(2, 0)>> }                \* last point in time: 0
    ELSE { <<Row(2, -2), Row(1, 1)>> }               \* last point in time: -2

\* pd.read_csv either returns the rows or raises (here: the URL does not answer)
Unreachable == [ok |-> FALSE, rows |-> <<>>]

FileStates(s) ==
    {[ok |-> TRUE, rows |-> r] : r \in CsvChoices(s)}
        \cup (IF INDEX_MAP[s].source.type = "url_csv" THEN {Unreachable} ELSE {})

\* df.sort_values(time_field): insertion of each row after the rows that are
\* not later than it
RECURSIVE InsertByTime(_, _)
InsertByTime(sorted, r) ==
    IF sorted = <<>> THEN <<r>>
    ELSE IF Head(sorted).time <= r.time
         THEN <<Head(sorted)>> \o InsertByTime(Tail(sorted), r)
         ELSE <<r>> \o sorted

RECURSIVE sort_values(_)
sort_values(rows) ==
    IF rows = <<>> THEN <<>>
    ELSE InsertByTime(sort_values(SubSeq(rows, 1, Len(rows) - 1)), rows[Len(rows)])

\* load_series, given what read_csv returned: both source types do the same
load_series(rows) == sort_values(rows)

NoEntry == [hit |-> FALSE, df |-> <<>>]

----------------------------------------------------------------------------
(* One execution of the script up to the order estimate (lines 160-250) *)

\* load_series through st.cache_data: a cached entry is returned as is, a
\* missing one is computed and stored, an exception stores nothing
CachedLoad(c, f, s) ==
    IF c[s].hit THEN [cache |-> c, ok |-> TRUE, df |-> c[s].df]
    ELSE IF ~f[s].ok THEN [cache |-> c, ok |-> FALSE, df |-> <<>>]
    ELSE LET d == load_series(f[s].rows)
         IN  [cache |-> [c EXCEPT ![s] = [hit |-> TRUE, df |-> d]], ok |-> TRUE, df |-> d]

\* mark = float(df["value"].iloc[-1])
mark(df) == float(df[Len(df)].value)

\* The script from line 160 to line 250: the mark it computes, the exception
\* that ends it (if any) and the cache it leaves
ScriptTop(c, f, s) ==
    LET ld == CachedLoad(c, f, s)
    IN  IF ~ld.ok
        THEN [cache |-> ld.cache, error |-> "SourceError", mark |-> Zero]
        ELSE IF mark(ld.df) = Zero
        THEN [cache |-> ld.cache, error |-> "ZeroDivisionError", mark |-> Zero]
        ELSE [cache |-> ld.cache, error |-> "", mark |-> mark(ld.df)]

\* the page an execution leaves on screen: the exception that ended it, or the
\* st.error message it showed
Page(error, msg) == [error |-> error, msg |-> msg]

----------------------------------------------------------------------------
(* The ledger operations, on a ledger record [balance, positions, log] *)

Ledger(b, p, l) == [balance |-> b, positions |-> p, log |-> l]

\* fee = notional * (TAKER_FEE_BPS / 10_000): shown as an estimate only
Fee(n) == FMul(n, FDiv(float(TAKER_FEE_BPS), float(10000)))

\* a sizing that forgets the leverage
Qty_unlevered(sd, n, l, entry) ==
    LET q == FDiv(n, entry)
    IN  IF sd = "SHORT" THEN FMul(q, float(-1)) ELSE q

\* qty = (notional * lev) / entry, negated for SHORT (lines 258-259)
Qty(sd, n, l, entry) ==
    LET q == FDiv(FMul(n, float(l)), entry)
    IN  IF sd = "SHORT" THEN FMul(q, float(-1)) ELSE q

\* an open that debits the notional twice
open_position_debits_twice(led, s, sd, n, l, entry, t) ==
    LET pos == [symbol |-> s, qty |-> Qty(sd, n, l, entry), entry |-> entry,
                notional |-> n, lev |-> l, opened |-> t]
        rec == [time |-> t + 1, action |-> "OPEN", symbol |-> s, side |-> sd,
                price |-> entry, notional |-> n, lev |-> l]
    IN  Ledger(FSub(FSub(led.balance, n), n), Append(led.positions, pos),
               Append(led.log, rec))

\* an open that files its record at the head of the log
open_position_newest_first(led, s, sd, n, l, entry, t) ==
    LET pos == [symbol |-> s, qty |-> Qty(sd, n, l, entry), entry |-> entry,
                notional |-> n, lev |-> l, opened |-> t]
        rec == [time |-> t + 1, action |-> "OPEN", symbol |-> s, side |-> sd,
                price |-> entry, notional |-> n, lev |-> l]
    IN  Ledger(FSub(led.balance, n), Append(led.positions, pos), <<rec>> \o led.log)

\* an open that debits the leveraged exposure instead of the notional
open_position_debits_exposure(led, s, sd, n, l, entry, t) ==
    LET pos == [symbol |-> s, qty |-> Qty(sd, n, l, entry), entry |-> entry,
                notional |-> n, lev |-> l, opened |-> t]
        rec == [time |-> t + 1, action |-> "OPEN", symbol |-> s, side |-> sd,
                price |-> entry, notional |-> n, lev |-> l]
    IN  Ledger(FSub(led.balance, FMul(n, float(l))), Append(led.positions, pos),
               Append(led.log, rec))

\* open_position(symbol, side, notional, lev, entry); t is the clock
open_position(led, s, sd, n, l, entry, t) ==
    LET pos == [symbol |-> s, qty |-> Qty(sd, n, l, entry), entry |-> entry,
                notional |-> n, lev |-> l, opened |-> t]
        rec == [time |-> t + 1, action |-> "OPEN", symbol |-> s, side |-> sd,
                price |-> entry, notional |-> n, lev |-> l]
    IN  Ledger(FSub(led.balance, n), Append(led.positions, pos), Append(led.log, rec))

\* pnl = (mark - pos["entry"]) * pos["qty"]
PnL(pos, m) == FMul(FSub(m, pos.entry), pos.qty)

\* positions.pop(i), with i counted from 1
Pop(seq, i) == SubSeq(seq, 1, i - 1) \o SubSeq(seq, i + 1, Len(seq))

\* a close that leaves no record
close_position_unlogged(led, i, m, t) ==
    LET pos == led.positions[i]
        pnl == PnL(pos, m)
    IN  Ledger(FAdd(led.balance, FAdd(pos.notional, pnl)), Pop(led.positions, i), led.log)

\* a close that marks the positions it leaves open to the closing price
close_position_remarks(led, i, m, t) ==
    LET pos == led.positions[i]
        pnl == PnL(pos, m)
        rec == [time |-> t, action |-> "CLOSE", symbol |-> pos.symbol, pnl |-> pnl, price |-> m]
        rest == Pop(led.positions, i)
    IN  Ledger(FAdd(led.balance, FAdd(pos.notional, pnl)),
               [j \in 1..Len(rest) |-> [rest[j] EXCEPT !.entry = m]],
               Append(led.log, rec))

\* a close that pays out the pnl but not the committed notional
close_position_no_collateral(led, i, m, t) ==
    LET pos == led.positions[i]
        pnl == PnL(pos, m)
        rec == [time |-> t, action |-> "CLOSE", symbol |-> pos.symbol, pnl |-> pnl, price |-> m]
    IN  Ledger(FAdd(led.balance, pnl), Pop(led.positions, i), Append(led.log, rec))

\* the body of the Close button handler for the i-th position
close_position(led, i, m, t) ==
    LET pos == led.positions[i]
        pnl == PnL(pos, m)
        rec == [time |-> t, action |-> "CLOSE", symbol |-> pos.symbol, pnl |-> pnl, price |-> m]
    IN  Ledger(FAdd(led.balance, FAdd(pos.notional, pnl)), Pop(led.positions, i),
               Append(led.log, rec))

\* ensure_state on a fresh session
ensure_state == Ledger(float(StartBalance), <<>>, <<>>)

\* a reset that forgets the log
reset_wallet_keeps_log == Ledger(float(StartBalance), <<>>, log)

\* the three assignments of the "Reset demo wallet" handler
reset_wallet == Ledger(float(StartBalance), <<>>, <<>>)

\* the "Unreal. PnL" column of the Open Positions table, under mark m
UnrealPnLRows(ps, m) == [i \in 1..Len(ps) |-> PnL(ps[i], m)]

CurrentLedger == Ledger(balances, positions, log)

SetLedger(led) ==
    /\ balances' = led.balance
    /\ positions' = led.positions
    /\ log' = led.log

----------------------------------------------------------------------------
(* Initial state: after the first execution of the script in a session:
   ensure_state has filled the session state, the first index of the list is
   selected and its series has been loaded if it could be *)

\* executions are taken as a whole here
NotFollowed == [pc |-> "whole"]

FileWorlds ==
    {f \in [symbols -> UNION {FileStates(s) : s \in symbols}] :
        \A s \in symbols : f[s] \in FileStates(s)}

Init ==
    /\ balances = ensure_state.balance
    /\ positions = ensure_state.positions
    /\ log = ensure_state.log
    /\ symbol = "A"
    /\ files \in FileWorlds
    /\ LET top == ScriptTop([s \in symbols |-> NoEntry], files, "A")
       IN  /\ cache = top.cache
           /\ page = Page(top.error, "")
    /\ now = 0
    /\ script = NotFollowed

----------------------------------------------------------------------------
(* Executions of the script.  Every interaction re-executes the script from
   the top: the sidebar handlers run first, then lines 160-250 (ScriptTop),
   then the Open and Close handlers, which are reached only if ScriptTop
   raised nothing.  Buttons below line 250 exist on the page only if the
   previous execution got that far.  A handler that ends in
   st.experimental_rerun() is followed at once by an execution with no button
   pressed, which finds the cache as the handler's execution left it and
   replaces the page, st.success message included. *)

Rendered == page.error = ""

\* an execution with no button pressed, with index s selected
PlainRun(s) ==
    LET top == ScriptTop(cache, files, s)
    IN  /\ cache' = top.cache
        /\ page' = Page(top.error, "")

\* any interaction that changes nothing (e.g. the timeframe radio)
Rerun ==
    /\ PlainRun(symbol)
    /\ UNCHANGED <<balances, positions, log, symbol, files, now, script>>

SelectIndex(s) ==
    /\ s # symbol
    /\ symbol' = s
    /\ PlainRun(s)
    /\ UNCHANGED <<balances, positions, log, files, now, script>>

\* "Refresh data": st.cache_data.clear(), then the rerun loads again
RefreshData ==
    LET top == ScriptTop([s \in symbols |-> NoEntry], files, symbol)
    IN  /\ cache' = top.cache
        /\ page' = Page(top.error, "")
        /\ UNCHANGED <<balances, positions, log, symbol, files, now, script>>

\* "Reset demo wallet": the three assignments, st.success, then the rerun
ResetWallet ==
    /\ SetLedger(reset_wallet)
    /\ PlainRun(symbol)
    /\ UNCHANGED <<symbol, files, now, script>>

\* a balance check that was left out
InsufficientBalance_skipped(b, n) == FALSE

\* notional > st.session_state.balances["USD"]
InsufficientBalance(b, n) == RatLt(b, n)

\* an Open handler that debits before it checks
OpenButton_debits_first(sd, n, l) ==
    LET top == ScriptTop(cache, files, symbol)
    IN  /\ Rendered
        /\ cache' = top.cache
        /\ IF top.error # ""
           THEN /\ page' = Page(top.error, "")
                /\ UNCHANGED <<balances, positions, log, now>>
           ELSE IF InsufficientBalance(balances, n)
           THEN /\ page' = Page("", "Insufficient balance.")
                /\ balances' = FSub(balances, n)
                /\ UNCHANGED <<positions, log, now>>
           ELSE /\ now + 2 <= MaxTime
                /\ SetLedger(open_position(CurrentLedger, symbol, sd, n, l, top.mark, now))
                /\ now' = now + 2
                /\ page' = Page("", "")
        /\ UNCHANGED <<symbol, files, script>>

\* "Open Position" pressed, with the order widgets at sd, n, l
OpenButton(sd, n, l) ==
    LET top == ScriptTop(cache, files, symbol)
    IN  /\ Rendered
        /\ cache' = top.cache
        /\ IF top.error # ""
           THEN /\ page' = Page(top.error, "")
                /\ UNCHANGED <<balances, positions, log, now>>
           ELSE IF InsufficientBalance(balances, n)
           THEN /\ page' = Page("", "Insufficient balance.")
                /\ UNCHANGED <<balances, positions, log, now>>
           ELSE /\ now + 2 <= MaxTime
                /\ SetLedger(open_position(CurrentLedger, symbol, sd, n, l, top.mark, now))
                /\ now' = now + 2
                /\ page' = Page("", "")
        /\ UNCHANGED <<symbol, files, script>>

\* the i-th "Close" button pressed
CloseButton(i) ==
    LET top == ScriptTop(cache, files, symbol)
    IN  /\ Rendered
        /\ i \in 1..Len(positions)
        /\ cache' = top.cache
        /\ IF top.error # ""
           THEN /\ page' = Page(top.error, "")
                /\ UNCHANGED <<balances, positions, log, now>>
           ELSE /\ now + 1 <= MaxTime
                /\ SetLedger(close_position(CurrentLedger, i, top.mark, now))
                /\ now' = now + 1
                /\ page' = Page("", "")
        /\ UNCHANGED <<symbol, files, script>>

(* The environment *)

\* the data behind an index changes, becomes unreachable or comes back
SourceChanges(s, f) ==
    /\ f # files[s]
    /\ files' = [files EXCEPT ![s] = f]
    /\ UNCHANGED <<balances, positions, log, symbol, cache, now, page, script>>

\* ttl=60: a cached entry older than 60 seconds is dropped
CacheExpires(s) ==
    /\ cache[s].hit
    /\ cache' = [cache EXCEPT ![s] = NoEntry]
    /\ UNCHANGED <<balances, positions, log, symbol, files, now, page, script>>

Next ==
    \/ Rerun
    \/ \E s \in symbols : SelectIndex(s)
    \/ RefreshData
    \/ ResetWallet
    \/ \E sd \in Sides, n \in Notionals, l \in Leverages : OpenButton(sd, n, l)
    \/ \E i \in 1..Len(positions) : CloseButton(i)
    \/ \E s \in symbols : \E f \in FileStates(s) : SourceChanges(s, f)
    \/ \E s \in symbols : CacheExpires(s)

Spec == Init /\ [][Next]_vars

----------------------------------------------------------------------------
(* Vocabulary of the properties *)

IsPos(x) == RatLt(Zero, x)

Neg(x) == [n |-> -x.n, d |-> x.d]

IsNeg(x) == RatLt(x, Zero)

\* the mark an execution of the script computes in the current state, when
\* it computes one
RunLoads == CachedLoad(cache, files, symbol)

RunMark == mark(RunLoads.df)

\* the script reaches the Open and Close handlers
RunReachesHandlers == RunLoads.ok /\ RunMark # Zero

\* positions' is positions with one position added at the end
OneMorePosition ==
    /\ Len(positions') = Len(positions) + 1
    /\ \A j \in 1..Len(positions) : positions'[j] = positions[j]

\* log' is log with one record added at the end
OneMoreRecord ==
    /\ Len(log') = Len(log) + 1
    /\ \A j \in 1..Len(log) : log'[j] = log[j]

LastOf(seq) == seq[Len(seq)]

----------------------------------------------------------------------------
(* C1: every accepted open (notional <= Balance) debits exactly the notional,
   adds exactly one position with entry = mark, the order's notional and
   leverage and quantity = notional * leverage / mark (negated for SHORT),
   appends exactly one OPEN record, and leaves every earlier position as it
   was. *)
C1_AcceptedOpen ==
    [][\A sd \in Sides, n \in Notionals, l \in Leverages :
        (OpenButton(sd, n, l) /\ RunReachesHandlers /\ RatLe(n, balances)) =>
            /\ balances' = FSub(balances, n)
            /\ OneMorePosition
            /\ LET p == LastOf(positions')
               IN  /\ p.symbol = symbol
                   /\ p.entry = RunMark
                   /\ p.notional = n
                   /\ p.lev = l
                   /\ p.qty = IF sd = "SHORT"
                                THEN Neg(FDiv(FMul(n, float(l)), RunMark))
                                ELSE FDiv(FMul(n, float(l)), RunMark)
            /\ OneMoreRecord
            /\ LET r == LastOf(log')
               IN  /\ r.action = "OPEN"
                   /\ r.symbol = symbol
                   /\ r.side = sd
                   /\ r.price = RunMark
                   /\ r.notional = n
                   /\ r.lev = l]_vars

\* an open was accepted while another position was open
C1_Witness ==
    /\ Len(positions) = 2
    /\ LastOf(log).action = "OPEN"
    /\ LastOf(positions).lev = MaxLeverage
    /\ LastOf(log).time = now - 1

(* C2: an open whose notional exceeds the Balance is rejected with the
   insufficient-balance message and changes neither the Balance, nor the open
   positions, nor the log. *)
C2_RejectedOpen ==
    [][\A sd \in Sides, n \in Notionals, l \in Leverages :
        (OpenButton(sd, n, l) /\ RunReachesHandlers /\ RatLt(balances, n)) =>
            /\ page'.msg = "Insufficient balance."
            /\ balances' = balances
            /\ positions' = positions
            /\ log' = log]_vars

\* an open was rejected while a position was open
C2_Witness == page.msg = "Insufficient balance." /\ Len(positions) > 0

(* C3: a close of open position p at the current mark m credits
   p.notional + (m - p.entry) * p.quantity, removes p and only p, and appends
   exactly one CLOSE record with that pnl and price m. *)
C3_Close ==
    [][\A i \in 1..Len(positions) :
        (CloseButton(i) /\ RunReachesHandlers) =>
            LET p == positions[i]
                pnl == FMul(FSub(RunMark, p.entry), p.qty)
            IN  /\ balances' = FAdd(balances, FAdd(p.notional, pnl))
                /\ Len(positions') = Len(positions) - 1
                /\ \A j \in 1..(i - 1) : positions'[j] = positions[j]
                /\ \A j \in i..Len(positions') : positions'[j] = positions[j + 1]
                /\ OneMoreRecord
                /\ LET r == LastOf(log')
                   IN  /\ r.action = "CLOSE"
                       /\ r.symbol = p.symbol
                       /\ r.pnl = pnl
                       /\ r.price = RunMark]_vars

\* a close with a non-zero pnl happened while another position stayed open
C3_Witness ==
    /\ Len(log) > 0
    /\ LastOf(log).action = "CLOSE"
    /\ LastOf(log).pnl # Zero
    /\ LastOf(log).time = now - 1
    /\ Len(positions) > 0

(* C4: for every open position p, the unrealized PnL the table reports for p
   is (m - p.entry) * p.quantity with m the current mark of the index named
   by p.symbol, whichever index is selected. *)
C4_PnLAtOwnIndexMark ==
    \A i \in 1..Len(positions) :
        LET p == positions[i]
        IN  (Rendered /\ cache[symbol].hit /\ cache[p.symbol].hit) =>
                UnrealPnLRows(positions, mark(cache[symbol].df))[i] =
                    FMul(FSub(mark(cache[p.symbol].df), p.entry), p.qty)

\* the ledger after an order (sd, n, l) is opened at the mark of the run and
\* the new position is closed at once at the same mark
RoundTrip(sd, n, l) ==
    LET opened == open_position(CurrentLedger, symbol, sd, n, l, RunMark, now)
    IN  close_position(opened, Len(opened.positions), RunMark, now + 2)

\* an order of notional n can be placed at a mark > 0
CanOpenAtPositiveMark(n) ==
    Rendered /\ RunReachesHandlers /\ IsPos(RunMark) /\ RatLe(n, balances)

\* the relative rounding error of one float operation is at most 2^-MantissaBits
UnitRoundoff == Rat(1, MantissaHigh)

(* C5 as claimed: from any state in which an order of notional N <= Balance
   can be placed at a mark P > 0, opening and then closing the new position
   at the same mark realizes pnl = 0 and gives back exactly the Balance and
   the open positions of before the open. *)
C5_RoundTripExact ==
    \A sd \in Sides, n \in Notionals, l \in Leverages :
        CanOpenAtPositiveMark(n) =>
            LET closed == RoundTrip(sd, n, l)
            IN  /\ LastOf(closed.log).pnl = Zero
                /\ closed.balance = balances
                /\ closed.positions = positions

(* C5 as amended: the round trip realizes pnl = 0, gives back the open
   positions, and gives back the Balance up to the rounding of the two float
   operations on it: the difference is at most 3 * 2^-MantissaBits * Balance. *)
C5_RoundTripWithinRounding ==
    \A sd \in Sides, n \in Notionals, l \in Leverages :
        CanOpenAtPositiveMark(n) =>
            LET closed == RoundTrip(sd, n, l)
            IN  /\ LastOf(closed.log).action = "CLOSE"
                /\ LastOf(closed.log).pnl = Zero
                /\ closed.positions = positions
                /\ RatLe(RatAbs(RatSub(closed.balance, balances)),
                         RatMul(RatMul([n |-> 3, d |-> 1], UnitRoundoff), balances))

\* a position was opened at a positive mark and closed at the same mark by
\* the very next ledger operation, and the Balance is back where it was
C5_Witness ==
    /\ Len(log) = 2
    /\ log[1].action = "OPEN"
    /\ log[2].action = "CLOSE"
    /\ log[2].time = log[1].time + 1
    /\ IsPos(log[1].price)
    /\ log[2].price = log[1].price
    /\ log[2].pnl = Zero
    /\ positions = <<>>
    /\ balances = float(StartBalance)

(* C6: an accepted open starts from a non-negative Balance and leaves a
   non-negative Balance; the only step that takes the Balance from
   non-negative to negative is a close whose notional + pnl is negative. *)
C6_BalanceSign ==
    [][/\ \A sd \in Sides, n \in Notionals, l \in Leverages :
            (OpenButton(sd, n, l) /\ Len(positions') > Len(positions)) =>
                (~IsNeg(balances) /\ ~IsNeg(balances'))
       /\ (~IsNeg(balances) /\ IsNeg(balances')) =>
            \E i \in 1..Len(positions) :
                /\ CloseButton(i)
                /\ IsNeg(FAdd(positions[i].notional,
                                FMul(FSub(RunMark, positions[i].entry), positions[i].qty)))
      ]_vars

\* a losing close has taken the Balance below zero
C6_Witness ==
    /\ IsNeg(balances)
    /\ Len(log) > 0
    /\ LastOf(log).action = "CLOSE"

(* C7: every open position has notional > 0, entry price > 0, leverage in
   [1, 20] and a quantity whose sign matches the side of its OPEN record. *)
C7_PositionInvariant ==
    \A i \in 1..Len(positions) :
        LET p == positions[i]
        IN  /\ IsPos(p.notional)
            /\ IsPos(p.entry)
            /\ p.lev \in MinLeverage..MaxLeverage
            /\ \A k \in 1..Len(log) :
                 (log[k].action = "OPEN" /\ log[k].time = p.opened + 1) =>
                    /\ log[k].side = "LONG" => IsPos(p.qty)
                    /\ log[k].side = "SHORT" => IsNeg(p.qty)

(* C8: an order placed while the mark price is <= 0 is rejected: the Balance,
   the open positions and the log are unchanged. *)
C8_NonPositiveMarkRejected ==
    [][\A sd \in Sides, n \in Notionals, l \in Leverages :
        (OpenButton(sd, n, l) /\ RunLoads.ok /\ RatLe(RunMark, Zero)) =>
            UNCHANGED <<balances, positions, log>>]_vars

(* C9: when an explicit refresh fails for the selected index, whose series is
   loaded, the session goes on serving that series and its mark, and the
   Balance, the open positions and the log are unchanged. *)
C9_RefreshFailureServesLastGood ==
    [][(RefreshData /\ cache[symbol].hit /\ ~files[symbol].ok) =>
            /\ page'.error # "SourceError"
            /\ cache'[symbol] = cache[symbol]
            /\ UNCHANGED <<balances, positions, log>>]_vars

(* C10: reset yields Balance = 10000, no open positions and an empty log from
   any state, and a reset of a freshly reset wallet changes nothing in it. *)
C10_Reset ==
    [][ResetWallet =>
        /\ balances' = float(StartBalance)
        /\ positions' = <<>>
        /\ log' = <<>>
        /\ (balances = float(StartBalance) /\ positions = <<>> /\ log = <<>>) =>
                UNCHANGED <<balances, positions, log>>]_vars

\* the wallet is as new although it has been traded with
C10_Witness ==
    /\ now > 0
    /\ balances = float(StartBalance)
    /\ positions = <<>>
    /\ log = <<>>

(* C11: a position's terms never change: in every step, every open position
   is found unchanged (symbol, quantity, entry, notional, leverage, opened)
   among the open positions of the next state, unless that step is the close
   of this very position or a reset; and no position of the next state
   carries the opened timestamp of an earlier one with other terms. *)
C11_PositionTermsImmutable ==
    [][/\ \A j \in 1..Len(positions) :
            \/ \E k \in 1..Len(positions') : positions'[k] = positions[j]
            \/ CloseButton(j)
            \/ ResetWallet
       /\ \A j \in 1..Len(positions) : \A k \in 1..Len(positions') :
            positions'[k].opened = positions[j].opened => positions'[k] = positions[j]
      ]_vars

\* the first position is still open after a later open, the close of that
\* other position and a change of the mark
C11_Witness ==
    /\ Len(log) = 3
    /\ log[2].action = "OPEN"
    /\ log[3].action = "CLOSE"
    /\ Len(positions) = 1
    /\ positions[1].opened = 0
    /\ log[3].price # positions[1].entry

(* C12: the log only grows at its end between resets: in every step the log
   of before is a prefix of the log of after, record for record, unless the
   step is a reset, which empties it. *)
C12_LogAppendOnly ==
    [][\/ /\ Len(log') >= Len(log)
           /\ \A k \in 1..Len(log) : log'[k] = log[k]
       \/ ResetWallet /\ log' = <<>>]_vars

\* an open was rejected after two ledger operations had been logged
C12_Witness ==
    /\ page.msg = "Insufficient balance."
    /\ Len(log) >= 2
    /\ log[1].action = "OPEN"
    /\ LastOf(log).action = "CLOSE"

(* Sums and counts over the ledger, in exact arithmetic *)

\* the number of records of action a in a log
RECURSIVE CountAction(_, _)
CountAction(lg, a) ==
    IF lg = <<>> THEN 0
    ELSE (IF Head(lg).action = a THEN 1 ELSE 0) + CountAction(Tail(lg), a)

\* the sum of notional over a sequence of positions
RECURSIVE SumNotional(_)
SumNotional(ps) ==
    IF ps = <<>> THEN Zero ELSE RatAdd(Head(ps).notional, SumNotional(Tail(ps)))

\* the sum of pnl over the CLOSE records of a log
RECURSIVE SumPnl(_)
SumPnl(lg) ==
    IF lg = <<>> THEN Zero
    ELSE IF Head(lg).action = "CLOSE" THEN RatAdd(Head(lg).pnl, SumPnl(Tail(lg)))
    ELSE SumPnl(Tail(lg))

\* the starting amount, plus the notional of every OPEN record, plus the
\* magnitude of the pnl of every CLOSE record: no Balance on the way to the
\* current one was larger in magnitude, rounding aside
RECURSIVE Turnover(_)
Turnover(lg) ==
    IF lg = <<>> THEN float(StartBalance)
    ELSE IF Head(lg).action = "CLOSE" THEN RatAdd(RatAbs(Head(lg).pnl), Turnover(Tail(lg)))
    ELSE RatAdd(Head(lg).notional, Turnover(Tail(lg)))

\* a <= b for two floats or sums of floats, whose denominators are powers
\* of 2: the comparison over the larger denominator
DyadicLe(a, b) ==
    LET D == IF a.d > b.d THEN a.d ELSE b.d
    IN  a.n * (D \div a.d) <= b.n * (D \div b.d)

\* Balance + sum of open notional - (10000 + sum of realized pnl)
ConservationGap ==
    RatSub(RatAdd(balances, SumNotional(positions)),
           RatAdd(float(StartBalance), SumPnl(log)))

(* C19 as claimed: in every reachable state, Balance plus the notional of the
   open positions equals 10000 plus the pnl of the CLOSE records in the log,
   exactly. *)
C19_ConservationExact == ConservationGap = Zero

(* C19 as amended: the two sides differ by no more than the rounding of the
   float operations on the Balance: at most 3 * 2^-MantissaBits * Turnover
   for every record in the log.  The fee is not part of the equation: it is
   never debited. *)
C19_ConservationWithinRounding ==
    DyadicLe(RatMul(RatAbs(ConservationGap), [n |-> MantissaHigh, d |-> 1]),
             RatMul([n |-> 3 * Len(log), d |-> 1], Turnover(log)))

\* a position was closed at a profit or a loss while another is open
C19_Witness ==
    /\ Len(log) = 3
    /\ CountAction(log, "CLOSE") = 1
    /\ SumPnl(log) # Zero
    /\ SumNotional(positions) # Zero

(* C20: in every reachable state the number of OPEN records minus the number
   of CLOSE records in the log is the number of open positions, and every
   open position has an OPEN record with its symbol, entry price, notional
   and leverage. *)
C20_LogMatchesPositions ==
    /\ CountAction(log, "OPEN") - CountAction(log, "CLOSE") = Len(positions)
    /\ \A i \in 1..Len(positions) :
            \E k \in 1..Len(log) :
                /\ log[k].action = "OPEN"
                /\ log[k].symbol = positions[i].symbol
                /\ log[k].price = positions[i].entry
                /\ log[k].notional = positions[i].notional
                /\ log[k].lev = positions[i].lev

\* two opens and one close are on the log and one position is open
C20_Witness ==
    /\ CountAction(log, "OPEN") = 2
    /\ CountAction(log, "CLOSE") = 1
    /\ Len(positions) = 1

----------------------------------------------------------------------------
(* The funding estimate (lines 71-75 and 163).  Besides the floats of above,
   a float can be NaN, written here as a record with d = 0.  The series of
   the model hold finite values, so that no infinity arises. *)

NaN == [n |-> 0, d |-> 0]

\* np.isfinite, on a float or NaN
IsFinite(x) == x.d # 0

\* lookback=30 and k=0.0005, the defaults of funding_rate
Lookback == 30

K == fl(Rat(5, 10000))

\* rolling(n, min_periods=1).mean() keeps, for the window, the number of
\* observations, their compensated (Kahan) sum, the number of negative ones
\* and the length of the run of equal values that ends the window
EmptyWindow ==
    [nobs |-> 0, sum_x |-> Zero, compensation |-> Zero, neg_ct |-> 0,
     num_consecutive_same_value |-> 0, prev_value |-> Zero]

\* a value enters the window; NaN is not an observation
add_mean(w, val) ==
    IF val = NaN THEN w
    ELSE LET y == FSub(val, w.compensation)
             t == FAdd(w.sum_x, y)
         IN  [nobs |-> w.nobs + 1,
              sum_x |-> t,
              compensation |-> FSub(FSub(t, w.sum_x), y),
              neg_ct |-> w.neg_ct + (IF RatLt(val, Zero) THEN 1 ELSE 0),
              num_consecutive_same_value |->
                  IF w.nobs > 0 /\ val = w.prev_value
                  THEN w.num_consecutive_same_value + 1 ELSE 1,
              prev_value |-> val]

\* a mean that forgets to divide by the count
calc_mean_sum(w) == IF w.nobs >= 1 THEN w.sum_x ELSE NaN

\* the mean of the window: a window of equal values has that value as its
\* mean, and the mean of values of one sign does not take the other sign
calc_mean(w) ==
    IF w.nobs >= 1
    THEN LET result == FDiv(w.sum_x, float(w.nobs))
         IN  IF w.num_consecutive_same_value >= w.nobs THEN w.prev_value
             ELSE IF w.neg_ct = 0 /\ RatLt(result, Zero) THEN Zero
             ELSE IF w.neg_ct = w.nobs /\ RatLt(Zero, result) THEN Zero
             ELSE result
    ELSE NaN

\* the window after the values s[from..to] have entered it
RECURSIVE Window(_, _, _)
Window(s, from, to) ==
    IF to < from THEN EmptyWindow ELSE add_mean(Window(s, from, to - 1), s[to])

Max(a, b) == IF a > b THEN a ELSE b

\* moving_avg(s, n): at each point the mean of the last n values up to it
moving_avg(s, n) ==
    [i \in 1..Len(s) |-> calc_mean(Window(s, Max(1, i - n + 1), i))]

\* - and / of two Series elements; the divisor is never 0 where it is used
ElemSub(a, b) == IF a = NaN \/ b = NaN THEN NaN ELSE FSub(a, b)

ElemDiv(a, b) == IF a = NaN \/ b = NaN THEN NaN ELSE FDiv(a, b)

\* ma.replace(0, np.nan)
replace_zero(x) == IF x = Zero THEN NaN ELSE x

\* premium.fillna(0.0)
fillna(x) == IF x = NaN THEN Zero ELSE x

\* the e with d = 2^e, for the denominator d of a float
RECURSIVE Log2(_)
Log2(d) == IF d = 1 THEN 0 ELSE 1 + Log2(d \div 2)

\* a * b on floats whose exact product has more digits than FMul can hold:
\* the product of the numerators is rounded, then scaled by the denominators
FMulSmall(a, b) ==
    LET p == a.n * b.n
        sc == Scale(Abs(p), 1, 0)
        m == RoundHalfEven(sc.a, sc.d) * (IF p < 0 THEN -1 ELSE 1)
        e == sc.e - Log2(a.d) - Log2(b.d)
    IN  IF p = 0 THEN Zero
        ELSE IF e >= 0 THEN Rat(m * Pow2(e), 1) ELSE Rat(m, Pow2(-e))

\* k * x
Times_k(x) == IF x = NaN THEN NaN ELSE FMulSmall(K, x)

\* a funding rate that does not fill the undefined premiums
funding_rate_unfilled(price_series) ==
    LET ma == moving_avg(price_series, Lookback)
    IN  [i \in 1..Len(price_series) |->
            Times_k(ElemDiv(ElemSub(price_series[i], ma[i]), replace_zero(ma[i])))]

\* funding_rate(price_series), with the default lookback and k
funding_rate(price_series) ==
    LET ma == moving_avg(price_series, Lookback)
    IN  [i \in 1..Len(price_series) |->
            Times_k(fillna(ElemDiv(ElemSub(price_series[i], ma[i]), replace_zero(ma[i]))))]

\* fr = funding_rate(df["value"]).iloc[-1] * 24 * 100
Funding24h(rates) ==
    LET r == rates[Len(rates)]
    IN  IF r = NaN THEN NaN ELSE FMul(FMul(r, float(24)), float(100))

----------------------------------------------------------------------------
(* The order estimate (lines 243-254) *)

MAINT_MARGIN_RATIO == fl(Rat(5, 1000))

\* an estimate that sizes every order as a LONG
EstimateQty_unsigned(sd, n, l, entry) == FDiv(FMul(n, float(l)), entry)

\* qty = (notional * lev) / entry * (1 if side == "LONG" else -1)
EstimateQty(sd, n, l, entry) ==
    FMul(FDiv(FMul(n, float(l)), entry), IF sd = "LONG" THEN float(1) ELSE float(-1))

\* maint = MAINT_MARGIN_RATIO * notional
Maint(n) == FMul(MAINT_MARGIN_RATIO, n)

\* a liquidation price on the wrong side of the entry
liq_price_mirrored(entry, n, fee, maint, qty) ==
    IF qty # Zero THEN FSub(entry, FDiv(FSub(maint, FSub(n, fee)), qty)) ELSE NaN

\* liq_price = entry + (maint - (notional - fee)) / qty if qty != 0 else nan
liq_price(entry, n, fee, maint, qty) ==
    IF qty # Zero THEN FAdd(entry, FDiv(FSub(maint, FSub(n, fee)), qty)) ELSE NaN

\* what the "Est. liq price" metric shows: the number, or a dash
LiqShown(liq) == IF IsFinite(liq) THEN "number" ELSE "dash"

----------------------------------------------------------------------------
(* The "Add index" handler (lines 123-140) and the CSV documents it reads *)

ColumnNames == {"timestamp", "value", "Timestamp", "Value", "time"}

\* str.lower() on the column names
lower ==
    [c \in ColumnNames |->
        IF c = "Timestamp" THEN "timestamp" ELSE IF c = "Value" THEN "value" ELSE c]

\* what pd.read_csv(_url) can find: a document with its header, or nothing
CandidateDocs ==
    {[ok |-> TRUE, columns |-> cols, rows |-> <<Row(1, 3)>>] :
        cols \in {{"timestamp", "value"}, {"Timestamp", "Value"}, {"time", "value"}}}
    \cup {[ok |-> FALSE, columns |-> {}, rows |-> <<>>]}

\* the registry of an execution: INDEX_MAP and the list symbols
Registry(map, syms) == [INDEX_MAP |-> map, symbols |-> syms]

\* lines 49-51: the registry as built from indices.json at the top of the script
ConfiguredRegistry == Registry(INDEX_MAP, <<"A", "B">>)

\* the body of `if st.button("Add index")`, with _sym, _url and the document
\* behind _url: the registry it leaves and the message it shows
AddIndex(reg, sym, url, doc) ==
    IF ~doc.ok
    THEN [registry |-> reg, msg |-> "Could not load CSV"]
    ELSE LET cols == {lower[c] : c \in doc.columns}
         IN  IF ~({"timestamp", "value"} \subseteq cols)
             THEN [registry |-> reg, msg |-> "CSV must contain columns: timestamp, value"]
             ELSE LET entry == [symbol |-> sym,
                                source |-> [type |-> "url_csv", url |-> url,
                                            value_field |-> "value",
                                            time_field |-> "timestamp"]]
                  IN  [registry |->
                           Registry([s \in DOMAIN reg.INDEX_MAP \cup {sym} |->
                                        IF s = sym THEN entry ELSE reg.INDEX_MAP[s]],
                                    Append(reg.symbols, sym)),
                       msg |-> "Added"]

\* load_series on a source with named fields: df[src["time_field"]] and the
\* rename need both columns to be in the document read
CanLoad(src, doc) ==
    doc.ok /\ src.time_field \in doc.columns /\ src.value_field \in doc.columns

----------------------------------------------------------------------------
(* One execution of the script followed statement by statement, from the
   sidebar to the Open handler, in a fresh session with index A selected.
   The inputs of the execution are the series behind A, the document behind
   the URL typed into "Add index", and the order widgets. *)

SeriesTimes == 1..2

SeriesValues == {-3, 0, 3}

SeriesRows == {Row(t, v) : t \in SeriesTimes, v \in SeriesValues}

\* every CSV of 1..MaxLen rows over the times and values above, in any file
\* order; the mark of the spec's worked example; and a constant series whose
\* value needs all the significant bits
SeriesChoices ==
    UNION {[1..k -> SeriesRows] : k \in 1..MaxLen}
        \cup {<<Row(1, 100)>>, <<Row(1, 2734), Row(2, 2734), Row(3, 2734)>>}

RunWorlds ==
    {[s \in symbols |->
        IF s = "A" THEN a ELSE [ok |-> TRUE, rows |-> <<Row(1, 1)>>]] :
            a \in {[ok |-> TRUE, rows |-> r] : r \in SeriesChoices} \cup {Unreachable}}

\* the default of the notional widget, and the whole starting balance
OrderNotionals == {float(500), float(StartBalance)}

OrderLeverages == {MinLeverage, 5, MaxLeverage}

\* the locals of the execution before its first statement
TopOfScript ==
    [pc |-> "sidebar", button |-> "", error |-> "", msg |-> "",
     registry |-> ConfiguredRegistry,
     df |-> <<>>, mark |-> Zero, rates |-> <<>>, fr |-> Zero,
     side |-> "LONG", notional |-> Zero, lev |-> 0,
     qty |-> Zero, fee |-> Zero, maint |-> Zero, liq_price |-> Zero]

RunInit ==
    /\ balances = ensure_state.balance
    /\ positions = ensure_state.positions
    /\ log = ensure_state.log
    /\ symbol = "A"
    /\ files \in RunWorlds
    /\ cache = [s \in symbols |-> NoEntry]
    /\ page = Page("", "")
    /\ now = 0
    /\ script = TopOfScript

\* lines 116-140 with "Add index" pressed: _sym = "C", doc is behind _url
SidebarAddIndex(doc) ==
    /\ script.pc = "sidebar"
    /\ LET r == AddIndex(script.registry, "C", "http://c", doc)
       IN  script' = [script EXCEPT !.pc = "load", !.button = "Add index",
                                    !.registry = r.registry, !.msg = r.msg]
    /\ UNCHANGED <<balances, positions, log, symbol, cache, files, now, page>>

\* the sidebar with no button of it pressed
SidebarPass ==
    /\ script.pc = "sidebar"
    /\ script' = [script EXCEPT !.pc = "load"]
    /\ UNCHANGED <<balances, positions, log, symbol, cache, files, now, page>>

\* lines 160-162: idx_cfg, df and mark
LoadSeries ==
    /\ script.pc = "load"
    /\ LET ld == CachedLoad(cache, files, symbol)
       IN  /\ cache' = ld.cache
           /\ script' = IF ld.ok
                         THEN [script EXCEPT !.pc = "funding", !.df = ld.df,
                                             !.mark = mark(ld.df)]
                         ELSE [script EXCEPT !.pc = "raised", !.error = "SourceError"]
    /\ UNCHANGED <<balances, positions, log, symbol, files, now, page>>

\* line 163: fr
FundingEstimate ==
    /\ script.pc = "funding"
    /\ LET rates == funding_rate([i \in 1..Len(script.df) |-> float(script.df[i].value)])
       IN  script' = [script EXCEPT !.pc = "estimate", !.rates = rates,
                                    !.fr = Funding24h(rates)]
    /\ UNCHANGED <<balances, positions, log, symbol, cache, files, now, page>>

\* lines 243-250, with the order widgets at sd, n, l
OrderEstimate(sd, n, l) ==
    /\ script.pc = "estimate"
    /\ script' =
         IF script.mark = Zero
         THEN [script EXCEPT !.pc = "raised", !.error = "ZeroDivisionError",
                             !.side = sd, !.notional = n, !.lev = l]
         ELSE LET qty == EstimateQty(sd, n, l, script.mark)
              IN  [script EXCEPT !.pc = "order", !.side = sd, !.notional = n, !.lev = l,
                                 !.qty = qty, !.fee = Fee(n), !.maint = Maint(n),
                                 !.liq_price = liq_price(script.mark, n, Fee(n), Maint(n), qty)]
    /\ UNCHANGED <<balances, positions, log, symbol, cache, files, now, page>>

\* lines 265-271 with "Open Position" pressed
PressOpen ==
    /\ script.pc = "order"
    /\ script.button = ""
    /\ IF InsufficientBalance(balances, script.notional)
       THEN /\ script' = [script EXCEPT !.pc = "done", !.button = "Open Position",
                                         !.msg = "Insufficient balance."]
            /\ UNCHANGED <<balances, positions, log, now>>
       ELSE /\ SetLedger(open_position(CurrentLedger, symbol, script.side, script.notional,
                                       script.lev, script.mark, now))
            /\ now' = now + 2
            /\ script' = [script EXCEPT !.pc = "done", !.button = "Open Position"]
    /\ UNCHANGED <<symbol, cache, files, page>>

RunNext ==
    \/ \E doc \in CandidateDocs : SidebarAddIndex(doc)
    \/ SidebarPass
    \/ LoadSeries
    \/ FundingEstimate
    \/ \E sd \in Sides, n \in OrderNotionals, l \in OrderLeverages : OrderEstimate(sd, n, l)
    \/ PressOpen

RunSpec == RunInit /\ [][RunNext]_vars

----------------------------------------------------------------------------
(* Vocabulary of the properties of a followed execution *)

\* the statement at pc has been reached without an exception
Loaded == script.pc \in {"funding", "estimate", "order", "done"}

Funded == script.pc \in {"estimate", "order", "done"}

Estimated == script.pc \in {"order", "done"}

\* the values of the loaded series, as floats
LoadedValues == [i \in 1..Len(script.df) |-> float(script.df[i].value)]

\* the equity of the estimated order at price P, as the program's floats
\* evaluate notional - fee + (P - entry) * qty
EquityAt(P) ==
    FAdd(FSub(script.notional, script.fee), FMul(FSub(P, script.mark), script.qty))

(* C13: "Add index" admits the candidate only if its CSV has both required
   columns, and then the time_field and value_field of the stored source
   name columns of that CSV, so that load_series can load it; a candidate
   that is not admitted leaves INDEX_MAP and symbols as they were. *)
C13_AddIndexValidates ==
    [][\A doc \in CandidateDocs :
        SidebarAddIndex(doc) =>
            IF "C" \in DOMAIN script'.registry.INDEX_MAP
            THEN LET src == script'.registry.INDEX_MAP["C"].source
                 IN  /\ doc.ok
                     /\ src.time_field \in doc.columns
                     /\ src.value_field \in doc.columns
                     /\ CanLoad(src, doc)
            ELSE script'.registry = script.registry]_vars

(* C14: for a mark > 0 the estimate sizes a LONG order with quantity > 0 and
   a SHORT order with quantity < 0, in both cases of magnitude
   notional * leverage / mark, and the position opened from the estimate
   stores the quantity of the estimate. *)
C14_SizingSign ==
    (Estimated /\ IsPos(script.mark)) =>
        /\ script.side = "LONG" => IsPos(script.qty)
        /\ script.side = "SHORT" => IsNeg(script.qty)
        /\ RatAbs(script.qty) =
              FDiv(FMul(script.notional, float(script.lev)), script.mark)
        /\ (script.pc = "done" /\ Len(positions) = 1) =>
              positions[1].qty = script.qty

\* a SHORT order at the lowest leverage was estimated at a positive mark
\* and opened
C14_Witness ==
    /\ script.pc = "done"
    /\ IsPos(script.mark)
    /\ script.side = "SHORT"
    /\ script.lev = MinLeverage
    /\ Len(positions) = 1
    /\ IsNeg(positions[1].qty)

(* C15 as claimed: for every estimate with quantity # 0 the equity at the
   estimated liquidation price, (notional - fee) + (L - entry) * quantity,
   equals the maintenance margin, with fee = notional * 5 / 10000; the
   estimate for quantity = 0 is shown as not available. *)
C15_LiqSolvesExactly ==
    Estimated =>
        /\ script.fee = FMul(script.notional, FDiv(float(TAKER_FEE_BPS), float(10000)))
        /\ script.qty # Zero => EquityAt(script.liq_price) = script.maint
        /\ LiqShown(liq_price(script.mark, script.notional, script.fee,
                               script.maint, Zero)) = "dash"

(* C15 as amended: the equity at the estimated liquidation price equals the
   maintenance margin up to the rounding of the float operations, which is
   at most (leverage + 7) * 2^-MantissaBits * notional; the estimate for
   quantity = 0 is NaN and is shown as a dash. *)
C15_LiqSolvesWithinRounding ==
    Estimated =>
        /\ script.fee = FMul(script.notional, FDiv(float(TAKER_FEE_BPS), float(10000)))
        /\ script.maint = FMul(MAINT_MARGIN_RATIO, script.notional)
        /\ script.qty # Zero =>
              /\ IsFinite(script.liq_price)
              /\ RatLe(RatAbs(RatSub(EquityAt(script.liq_price), script.maint)),
                       RatMul(RatMul([n |-> script.lev + 7, d |-> 1], UnitRoundoff),
                              script.notional))
        /\ liq_price(script.mark, script.notional, script.fee, script.maint, Zero) = NaN
        /\ LiqShown(NaN) = "dash"

\* the order of the spec's worked example (500 at 5x, mark 100) was
\* estimated: fee 0.25 and a liquidation price below the entry
C15_Witness ==
    /\ Estimated
    /\ script.mark = float(100)
    /\ script.side = "LONG"
    /\ script.notional = float(500)
    /\ script.lev = 5
    /\ script.qty = float(25)
    /\ script.fee = Rat(1, 4)
    /\ RatLt(script.liq_price, script.mark)

(* C16: every loaded series is in non-decreasing order of time and holds no
   (time, value) row twice, and the mark is the value of its last point. *)
C16_SortedDeduplicated ==
    Loaded =>
        /\ \A i \in 1..(Len(script.df) - 1) : script.df[i].time <= script.df[i + 1].time
        /\ \A i \in 1..Len(script.df) : \A j \in 1..Len(script.df) :
              script.df[i] = script.df[j] => i = j
        /\ script.mark = float(script.df[Len(script.df)].value)

(* C17: at every point where the moving average is exactly 0, the funding
   rate is 0, a finite value, whatever the value of the series there. *)
C17_ZeroAverageGuard ==
    Funded =>
        \A i \in 1..Len(script.rates) :
            moving_avg(LoadedValues, Lookback)[i] = Zero =>
                script.rates[i] = Zero /\ IsFinite(script.rates[i])

\* the average is 0 at a point where the series is not
C17_Witness ==
    /\ Funded
    /\ \E i \in 1..Len(script.rates) :
          /\ moving_avg(LoadedValues, Lookback)[i] = Zero
          /\ LoadedValues[i] # Zero
          /\ script.rates[i] = Zero

(* C18: for a constant series the funding rate is 0 at every point and the
   24h funding estimate shown is 0. *)
C18_ZeroPremium ==
    (Funded /\ \A i \in 1..Len(script.df) : script.df[i].value = script.df[1].value) =>
        /\ \A i \in 1..Len(script.rates) : script.rates[i] = Zero
        /\ script.fr = Zero

\* a constant series of three points, of a value that fills the mantissa
C18_Witness ==
    /\ Funded
    /\ Len(script.df) = MaxLen
    /\ \A i \in 1..Len(script.df) : script.df[i].value = 2734
    /\ script.fr = Zero

====
